---------------------------- MODULE Spec2Model ----------------------------
(***************************************************************************)
(* Metrics gateway (src/app.py): a Flask application with one HTML route   *)
(* and three JSON routes, each of which reads one file of the results      *)
(* directory through load_json and answers with jsonify of its value.      *)
(*                                                                         *)
(* Texts are sequences of lexical tokens.  json.load is modelled as the    *)
(* recursive-descent decoder it is, jsonify as the encoder it is (sorted   *)
(* keys, indentation under debug=True, trailing newline).                  *)
(***************************************************************************)
EXTENDS Integers, Sequences, FiniteSets, TLC

\* ------------------------------------------------------------------ bounds
\* Longest array / object (in members) of the generated documents.
MaxWidth == 2
\* Largest integer literal of the generated documents.
MaxInt == 2
\* Requests started in one behaviour.
MaxRequests == 2
\* External changes to the results directory in one behaviour.
MaxChanges == 1

\* Largest decimal exponent of a finite IEEE-754 double (sys.float_info).
DBL_MAX_10_EXP == 308

\* ------------------------------------------------------------------ tokens
\* One lexical token of a text: k is its class, s its spelling (punctuation,
\* strings, words), m and e the mantissa and decimal exponent of a number.
Tk(k, s, m, e) == [k |-> k, s |-> s, m |-> m, e |-> e]
P(s)       == Tk("p", s, 0, 0)
WS         == Tk("ws", " ", 0, 0)
StrTok(s)  == Tk("str", s, 0, 0)
IntTok(n)  == Tk("int", "", n, 0)
RealTok(m, e) == Tk("real", "", m, e)
WordTok(s) == Tk("word", s, 0, 0)
EOF        == Tk("eof", "", 0, 0)

\* The text without its insignificant whitespace.
Significant(text) == SelectSeq(text, LAMBDA t : t.k # "ws")

\* ------------------------------------------------------------------ values
\* A value (a document of the producer, or a Python object of the gateway):
\* kids are the items of a list or, with their keys, the members of a dict.
Node(k, s, m, e, kids) == [k |-> k, s |-> s, m |-> m, e |-> e, kids |-> kids]
Kid(key, val) == [key |-> key, val |-> val]
Items(vals) == [i \in 1..Len(vals) |-> Kid("", vals[i])]

PyNone        == Node("none", "", 0, 0, <<>>)
PyInt(n)      == Node("int", "", n, 0, <<>>)
PyFloat(m, e) == Node("float", "", m, e, <<>>)
PyInf         == Node("inf", "", 0, 0, <<>>)
PyNaN         == Node("nan", "", 0, 0, <<>>)
PyStr(s)      == Node("str", s, 0, 0, <<>>)
PyList(kids)  == Node("list", "", 0, 0, kids)
PyDict(kids)  == Node("dict", "", 0, 0, kids)


\* ---------------------------------------------------------- json decoding
\* The token at position i of text s, EOF past its end.
TokAt(s, i) == IF i >= 1 /\ i <= Len(s) THEN s[i] ELSE EOF

\* json.decoder WHITESPACE.match(s, i).end(): the first position >= i that
\* holds no whitespace.
RECURSIVE SkipWs(_, _)
SkipWs(s, i) == IF TokAt(s, i).k = "ws" THEN SkipWs(s, i + 1) ELSE i

\* Result of a decoding step: the value and the position after it, or the
\* failure that json reports as JSONDecodeError.
Decoded(val, pos) == [ok |-> TRUE, val |-> val, pos |-> pos]
DecodeError       == [ok |-> FALSE, val |-> PyNone, pos |-> 0]

\* float(literal) for the literal m * 10^e with a one-digit mantissa: the
\* nearest double, which is inf beyond the largest finite double 1.79e308.
float(m, e) ==
    IF e > DBL_MAX_10_EXP \/ (e = DBL_MAX_10_EXP /\ m >= 2)
    THEN PyInf
    ELSE PyFloat(m, e)

\* json.decoder _CONSTANTS / parse_constant: the three words the decoder
\* accepts beyond the JSON grammar, and JSON's own three.
IsConstant(w) == w \in {"NaN", "Infinity", "-Infinity", "null", "true", "false"}
parse_constant(w) ==
    CASE w = "NaN"       -> PyNaN
      [] w = "Infinity"  -> PyInf
      [] w = "-Infinity" -> Node("inf", "-", 0, 0, <<>>)
      [] w = "null"      -> PyNone
      [] OTHER           -> Node("bool", w, 0, 0, <<>>)

\* dict(pairs): a repeated key keeps its first position and takes the last
\* value.
RECURSIVE dict_of(_, _)
dict_of(pairs, acc) ==
    IF pairs = <<>> THEN acc
    ELSE LET p == Head(pairs)
             hit == {i \in 1..Len(acc) : acc[i].key = p.key}
         IN  dict_of(Tail(pairs),
                     IF hit = {} THEN Append(acc, p)
                     ELSE [i \in 1..Len(acc) |->
                              IF i \in hit THEN p ELSE acc[i]])

RECURSIVE scan_once(_, _)
RECURSIVE JSONArray(_, _, _)
RECURSIVE JSONObject(_, _, _)

\* json.scanner py_scan_once: one value starting at position i.
scan_once(s, i) ==
    LET t == TokAt(s, i) IN
    CASE t.k = "str"  -> Decoded(PyStr(t.s), i + 1)
      [] t.k = "int"  -> Decoded(PyInt(t.m), i + 1)
      [] t.k = "real" -> Decoded(float(t.m, t.e), i + 1)
      [] t.k = "word" /\ IsConstant(t.s) -> Decoded(parse_constant(t.s), i + 1)
      [] t = P("[") ->
            LET j == SkipWs(s, i + 1) IN
            IF TokAt(s, j) = P("]") THEN Decoded(PyList(<<>>), j + 1)
            ELSE JSONArray(s, j, <<>>)
      [] t = P("{") ->
            LET j == SkipWs(s, i + 1) IN
            IF TokAt(s, j) = P("}") THEN Decoded(PyDict(<<>>), j + 1)
            ELSE JSONObject(s, j, <<>>)
      [] OTHER -> DecodeError

\* json.decoder JSONArray, from the position i of the next item.
JSONArray(s, i, acc) ==
    LET r == scan_once(s, i) IN
    IF ~r.ok THEN DecodeError
    ELSE LET j == SkipWs(s, r.pos)
             vals == Append(acc, Kid("", r.val))
         IN  CASE TokAt(s, j) = P("]") -> Decoded(PyList(vals), j + 1)
               [] TokAt(s, j) = P(",") -> JSONArray(s, SkipWs(s, j + 1), vals)
               [] OTHER -> DecodeError

\* json.decoder JSONObject, from the position i of the next member's key.
JSONObject(s, i, acc) ==
    IF TokAt(s, i).k # "str" THEN DecodeError
    ELSE LET c == SkipWs(s, i + 1) IN
         IF TokAt(s, c) # P(":") THEN DecodeError
         ELSE LET r == scan_once(s, SkipWs(s, c + 1)) IN
              IF ~r.ok THEN DecodeError
              ELSE LET j == SkipWs(s, r.pos)
                       pairs == Append(acc, Kid(TokAt(s, i).s, r.val))
                   IN  CASE TokAt(s, j) = P("}") ->
                                Decoded(PyDict(dict_of(pairs, <<>>)), j + 1)
                         [] TokAt(s, j) = P(",") ->
                                JSONObject(s, SkipWs(s, j + 1), pairs)
                         [] OTHER -> DecodeError

\* json.load(f) on the text read from f: JSONDecoder.decode, one value
\* between optional whitespace and nothing after it ("Extra data").
json_load(text) ==
    LET r == scan_once(text, SkipWs(text, 1)) IN
    IF ~r.ok THEN DecodeError
    ELSE IF SkipWs(text, r.pos) # Len(text) + 1 THEN DecodeError
    ELSE r

\* ---------------------------------------------------------- json encoding
\* Lexicographic rank of the keys in use (str.__lt__ on them).
KeyOrder == <<"a", "b", "c">>
Keys == {KeyOrder[i] : i \in 1..Len(KeyOrder)}
KeyRank(k) == CHOOSE i \in 1..Len(KeyOrder) : KeyOrder[i] = k

\* sorted(dct.items()): insertion sort by key.
RECURSIVE sorted_items(_)
sorted_items(kids) ==
    IF kids = <<>> THEN <<>>
    ELSE LET rest == sorted_items(Tail(kids))
             h == Head(kids)
             lo == SelectSeq(rest, LAMBDA x : KeyRank(x.key) < KeyRank(h.key))
             hi == SelectSeq(rest, LAMBDA x : KeyRank(x.key) >= KeyRank(h.key))
         IN  lo \o <<h>> \o hi

RECURSIVE dumps(_)
RECURSIVE dumps_kids(_, _)
\* The members of a container, each after the newline and indentation that
\* indent=2 puts before it, separated by commas.
dumps_kids(kids, isdict) ==
    IF kids = <<>> THEN <<>>
    ELSE LET h == Head(kids)
             one == <<WS>> \o (IF isdict THEN <<StrTok(h.key), P(":"), WS>> ELSE <<>>)
                    \o dumps(h.val)
         IN  one \o (IF Tail(kids) = <<>> THEN <<>> ELSE <<P(",")>>)
                 \o dumps_kids(Tail(kids), isdict)

\* json.dumps(obj, sort_keys=True, indent=2), as the Flask JSON provider
\* calls it under debug=True; allow_nan is left at its default.
dumps(v) ==
    CASE v.k = "int"   -> <<IntTok(v.m)>>
      [] v.k = "float" -> <<RealTok(v.m, v.e)>>
      [] v.k = "inf"   -> <<WordTok(v.s \o "Infinity")>>
      [] v.k = "nan"   -> <<WordTok("NaN")>>
      [] v.k = "none"  -> <<WordTok("null")>>
      [] v.k = "bool"  -> <<WordTok(v.s)>>
      [] v.k = "str"   -> <<StrTok(v.s)>>
      [] v.k = "list"  ->
            IF v.kids = <<>> THEN <<P("["), P("]")>>
            ELSE <<P("[")>> \o dumps_kids(v.kids, FALSE) \o <<WS, P("]")>>
      [] v.k = "dict"  ->
            IF v.kids = <<>> THEN <<P("{"), P("}")>>
            ELSE <<P("{")>> \o dumps_kids(sorted_items(v.kids), TRUE) \o <<WS, P("}")>>
      [] OTHER -> <<>>

\* A response: status line, content type, body text, and for a 500 the
\* exception that the handler let escape.
Response(status, ctype, body, error) ==
    [status |-> status, ctype |-> ctype, body |-> body, error |-> error]
NoResponse == Response(0, "", <<>>, "")
ServerError(exc) == Response(500, "text/html", <<>>, exc)

\* flask.jsonify(obj): 200, application/json, dumps(obj) and a newline.
jsonify(obj) == Response(200, "application/json", dumps(obj) \o <<WS>>, "")


\* ------------------------------------------- the producer's documents
\* A Metrics Document as the external producer holds it, and the JSON text
\* it writes for it.  Members of an object are in the order written.
DInt(n)     == Node("int", "", n, 0, <<>>)
DReal(m, e) == Node("real", "", m, e, <<>>)
DStr(s)     == Node("str", s, 0, 0, <<>>)
DArr(vals)  == Node("arr", "", 0, 0, Items(vals))
DObj(kids)  == Node("obj", "", 0, 0, kids)

RECURSIVE Render(_, _)
RECURSIVE RenderKids(_, _, _)
RenderKids(kids, isobj, spaced) ==
    IF kids = <<>> THEN <<>>
    ELSE LET h == Head(kids)
             sp == IF spaced THEN <<WS>> ELSE <<>>
             one == (IF isobj THEN <<StrTok(h.key), P(":")>> \o sp ELSE <<>>)
                    \o Render(h.val, spaced)
         IN  one \o (IF Tail(kids) = <<>> THEN <<>> ELSE <<P(",")>> \o sp)
                 \o RenderKids(Tail(kids), isobj, spaced)

\* The JSON text of document d, compact or with a space after each comma and
\* colon.
Render(d, spaced) ==
    CASE d.k = "int"  -> <<IntTok(d.m)>>
      [] d.k = "real" -> <<RealTok(d.m, d.e)>>
      [] d.k = "str"  -> <<StrTok(d.s)>>
      [] d.k = "arr"  -> <<P("[")>> \o RenderKids(d.kids, FALSE, spaced) \o <<P("]")>>
      [] d.k = "obj"  -> <<P("{")>> \o RenderKids(d.kids, TRUE, spaced) \o <<P("}")>>
      [] OTHER -> <<>>

\* The members of an object in key order: for each key in turn, the members
\* that carry it.
RECURSIVE ByKey(_, _)
ByKey(kids, i) ==
    IF i > Len(KeyOrder) THEN <<>>
    ELSE SelectSeq(kids, LAMBDA x : x.key = KeyOrder[i]) \o ByKey(kids, i + 1)

\* The document with the members of every object in key order: two documents
\* are the same JSON value when these agree.
RECURSIVE Normal(_)
Normal(d) ==
    LET kids == [i \in 1..Len(d.kids) |-> Kid(d.kids[i].key, Normal(d.kids[i].val))]
    IN  IF d.k = "obj" THEN DObj(ByKey(kids, 1))
        ELSE IF d.k = "arr" THEN Node("arr", "", 0, 0, kids)
        ELSE d

\* The text that carries document d and nothing else: its value, compact.
Canonical(d) == Render(Normal(d), FALSE)

\* An object repeats a key somewhere in d.
RECURSIVE RepeatsKey(_)
RepeatsKey(d) ==
    \/ d.k = "obj" /\ \E i, j \in 1..Len(d.kids) : i < j /\ d.kids[i].key = d.kids[j].key
    \/ \E i \in 1..Len(d.kids) : RepeatsKey(d.kids[i].val)

\* A number of d lies beyond the largest finite double.
RECURSIVE BeyondDouble(_)
BeyondDouble(d) ==
    \/ d.k = "real" /\ (d.e > DBL_MAX_10_EXP \/ (d.e = DBL_MAX_10_EXP /\ d.m >= 2))
    \/ \E i \in 1..Len(d.kids) : BeyondDouble(d.kids[i].val)

\* Sequences over S of length at most n.
SeqsUpTo(S, n) == UNION {[1..k -> S] : k \in 0..n}

DocKeys == {"a", "b"}
Leaves ==
    {DInt(n) : n \in 1..MaxInt} \cup {DStr("a")} \cup {DReal(5, -1), DReal(1, 400)}
FlatDocs ==
    {DArr(vs) : vs \in SeqsUpTo(Leaves, MaxWidth)}
    \cup {DObj(ms) : ms \in SeqsUpTo({Kid(k, v) : k \in DocKeys, v \in Leaves}, MaxWidth)}
DocA == DObj(<<Kid("a", DInt(1))>>)
DocB == DArr(<<DInt(1), DInt(2), DInt(3)>>)
NestedDocs ==
    { DocB,
      DObj(<<Kid("c", DArr(<<DInt(1), DObj(<<Kid("b", DInt(2)), Kid("a", DStr("a"))>>)>>)),
             Kid("a", DObj(<<>>))>>),
      DArr(<<DArr(<<>>), DArr(<<DInt(1)>>), DObj(<<Kid("b", DReal(2, 308))>>)>>),
      DObj(<<Kid("b", DObj(<<Kid("a", DInt(1)), Kid("a", DInt(2))>>))>>),
      DArr(<<DReal(1, 308), DArr(<<DReal(9, 307)>>)>>) }
\* The documents of the conversion checks: every one an object or an array.
Docs == FlatDocs \cup NestedDocs

\* Texts that are no JSON: {not valid}, the empty file, a cut-off array, a
\* trailing comma, data after the document, a member without colon, a key
\* that is no string, a member without value, items without comma, a stray
\* bracket; and the words NaN, Infinity and -Infinity in place of a number.
BrokenTexts ==
    { <<P("{"), WordTok("not"), WS, WordTok("valid"), P("}")>>,
      <<>>,
      <<WS>>,
      <<P("["), IntTok(1), P(","), IntTok(2)>>,
      <<P("["), IntTok(1), P(","), P("]")>>,
      <<P("["), IntTok(1), P("]"), WS, IntTok(2)>>,
      <<P("{"), StrTok("a"), WS, IntTok(1), P("}")>>,
      <<P("{"), IntTok(1), P(":"), IntTok(2), P("}")>>,
      <<P("{"), StrTok("a"), P(":"), P("}")>>,
      <<P("{"), StrTok("a"), P(":"), IntTok(1), P(","), P("}")>>,
      <<P("["), IntTok(1), WS, IntTok(2), P("]")>>,
      <<P("]")>>,
      <<P("{"), StrTok("a"), P(":"), IntTok(1)>> }
NonFiniteTexts ==
    { <<P("["), WordTok("NaN"), P("]")>>,
      <<P("{"), StrTok("a"), P(":"), WS, WordTok("Infinity"), P("}")>>,
      <<P("["), IntTok(1), P(","), WordTok("-Infinity"), P("]")>> }
MalformedTexts == BrokenTexts \cup NonFiniteTexts

\* ----------------------------------------------------- results directory
\* The state of one file: whether it exists and its text, and (not visible
\* to the gateway) the document the producer wrote it from, if any.
Absent == [exists |-> FALSE, text |-> <<>>, isdoc |-> FALSE, doc |-> PyNone]
Written(d, spaced) ==
    [exists |-> TRUE, text |-> Render(d, spaced), isdoc |-> TRUE, doc |-> d]
Malformed(t) == [exists |-> TRUE, text |-> t, isdoc |-> FALSE, doc |-> PyNone]

\* Every content of the conversion checks, and the few the producer moves
\* between in the interleaving checks.
AllContents ==
    {Written(d, sp) : d \in Docs, sp \in BOOLEAN} \cup {Malformed(t) : t \in MalformedTexts}
SysContents ==
    { Written(DocA, FALSE), Written(DocB, TRUE),
      Malformed(<<P("{"), WordTok("not"), WS, WordTok("valid"), P("}")>>) }

\* LOG_DIR and the three names joined to it.
FileNames == {"serial_metrics.json", "parallel_metrics.json", "compare_metrics.json"}
MetricRoutes == {"/api/serial", "/api/parallel", "/api/compare"}
Routes == {"/"} \cup MetricRoutes

\* The Metrics File Reference of a route: the file the interface names for it.
MetricsFileRef(rt) ==
    CASE rt = "/api/serial"   -> "serial_metrics.json"
      [] rt = "/api/parallel" -> "parallel_metrics.json"
      [] rt = "/api/compare"  -> "compare_metrics.json"


\* ------------------------------------------------------------------ state
VARIABLES
    server,     \* "starting" until app.run serves, then "serving"
    template,   \* whether templates/index.html exists
    files,      \* the results directory: file name -> state of the file
    pc,         \* per request slot: where its handler stands
    route,      \* per request slot: the route requested
    fh,         \* per request slot: the file object opened by load_json
    resp,       \* per request slot: the response sent
    during,     \* per slot: every state its route's file had since the request began
    nreq,       \* requests started
    nchg        \* changes made by the producer

vars == <<server, template, files, pc, route, fh, resp, during, nreq, nchg>>

\* The requests in progress at one time: two threads of the threaded
\* development server.
Slots == {1, 2}
Closed == [name |-> "", cur |-> FALSE, content |-> Absent]
Active(r) == pc[r] \in {"exists", "open", "read"}

\* ------------------------------------------------------------- the gateway
\* Lines 21-31: the file name each view function passes to load_json.
serial_metrics   == "serial_metrics.json"
parallel_metrics == "parallel_metrics.json"
compare_metrics  == "compare_metrics.json"

\* A slip of copy and paste: the second view passes the first view's name.
view_filename_pasted(rt) ==
    CASE rt = "/api/serial"   -> serial_metrics
      [] rt = "/api/parallel" -> serial_metrics
      [] rt = "/api/compare"  -> compare_metrics

\* app.url_map as the route decorators build it: route -> view's file name.
view_filename(rt) ==
    CASE rt = "/api/serial"   -> serial_metrics
      [] rt = "/api/parallel" -> parallel_metrics
      [] rt = "/api/compare"  -> compare_metrics

\* f.readline() in place of f.read(): the text up to its first line break.
RECURSIVE readline_of(_)
readline_of(text) ==
    IF text = <<>> THEN <<>>
    ELSE IF Head(text).k = "ws" THEN <<Head(text)>>
    ELSE <<Head(text)>> \o readline_of(Tail(text))
readline(content) == readline_of(content.text)

\* f.read() inside json.load: the whole text of the open file.
read(content) == content.text

\* os.path.exists(path) on directory dir.
exists(dir, filename) == dir[filename].exists

\* A decoder error caught and answered like a missing file.
parse_or_empty(text) ==
    LET d == json_load(text) IN
    IF d.ok THEN jsonify(d.val) ELSE jsonify(PyDict(<<>>))

\* Line 15 and the enclosing view: json.load on the text read, jsonify of
\* its value; a JSONDecodeError is not caught and Flask answers 500.
parse_and_respond(text) ==
    LET d == json_load(text) IN
    IF d.ok THEN jsonify(d.val) ELSE ServerError("JSONDecodeError")

\* load_json and its view run without interruption on directory dir.
view(rt, dir) ==
    LET filename == view_filename(rt) IN
    IF ~exists(dir, filename) THEN jsonify(PyDict(<<>>))
    ELSE parse_and_respond(read(dir[filename]))

\* A missing template answered with an empty page.
render_or_blank(present) ==
    IF present THEN Response(200, "text/html", <<WordTok("index.html")>>, "")
    ELSE Response(200, "text/html", <<>>, "")

\* render_template("index.html"): the page, or TemplateNotFound, which
\* Flask answers with 500.
render_template(present) ==
    IF present THEN Response(200, "text/html", <<WordTok("index.html")>>, "")
    ELSE ServerError("TemplateNotFound")

\* The response a slot sends.
Send(r, response) ==
    /\ resp' = [resp EXCEPT ![r] = response]
    /\ pc' = [pc EXCEPT ![r] = "done"]

\* Line 34: app.run starts serving; nothing is read or checked before.
run ==
    /\ server = "starting"
    /\ server' = "serving"
    /\ UNCHANGED <<template, files, pc, route, fh, resp, during, nreq, nchg>>

\* A request arrives on route rt and is dispatched to its view function.
Receive(r, rt) ==
    /\ server = "serving"
    /\ pc[r] \in {"idle", "done"}
    /\ nreq < MaxRequests
    /\ nreq' = nreq + 1
    /\ route' = [route EXCEPT ![r] = rt]
    /\ pc' = [pc EXCEPT ![r] = IF rt = "/" THEN "index" ELSE "exists"]
    /\ resp' = [resp EXCEPT ![r] = NoResponse]
    /\ fh' = [fh EXCEPT ![r] = Closed]
    /\ during' = [during EXCEPT ![r] =
                     IF rt = "/" THEN {} ELSE {files[MetricsFileRef(rt)]}]
    /\ UNCHANGED <<server, template, files, nchg>>

\* index() passing the serial metrics to its template.
index_with_metrics(r) ==
    /\ pc[r] = "index"
    /\ LET m == view("/api/serial", files) IN
       Send(r, IF m.status = 200 THEN render_template(template) ELSE m)
    /\ UNCHANGED <<server, template, files, route, fh, during, nreq, nchg>>

\* Lines 17-19: index().
index(r) ==
    /\ pc[r] = "index"
    /\ Send(r, render_template(template))
    /\ UNCHANGED <<server, template, files, route, fh, during, nreq, nchg>>

\* load_json without its existence test.
load_json_no_check(r) ==
    /\ pc[r] = "exists"
    /\ pc' = [pc EXCEPT ![r] = "open"]
    /\ UNCHANGED <<server, template, files, route, fh, resp, during, nreq, nchg>>

\* load_json memoised per file name (functools.lru_cache): an answer already
\* given on the route is given again.
load_json_cached(r) ==
    /\ pc[r] = "exists"
    /\ LET hits == {q \in Slots : q # r /\ pc[q] = "done" /\ route[q] = route[r]
                                  /\ resp[q].status = 200} IN
       IF hits # {} THEN \E q \in hits : Send(r, resp[q])
       ELSE IF ~exists(files, view_filename(route[r]))
       THEN Send(r, jsonify(PyDict(<<>>)))
       ELSE /\ pc' = [pc EXCEPT ![r] = "open"]
            /\ UNCHANGED resp
    /\ UNCHANGED <<server, template, files, route, fh, during, nreq, nchg>>

\* load_json writing the default it answers with when the file is missing.
load_json_create(r) ==
    /\ pc[r] = "exists"
    /\ LET filename == view_filename(route[r]) IN
       IF ~exists(files, filename)
       THEN /\ Send(r, jsonify(PyDict(<<>>)))
            /\ files' = [files EXCEPT ![filename] = Written(DObj(<<>>), FALSE)]
       ELSE /\ pc' = [pc EXCEPT ![r] = "open"]
            /\ UNCHANGED <<resp, files>>
    /\ UNCHANGED <<server, template, route, fh, during, nreq, nchg>>

\* Lines 11-13: the path is joined and tested; an absent file is answered
\* with jsonify({}).
load_json_exists(r) ==
    /\ pc[r] = "exists"
    /\ IF ~exists(files, view_filename(route[r]))
       THEN Send(r, jsonify(PyDict(<<>>)))
       ELSE /\ pc' = [pc EXCEPT ![r] = "open"]
            /\ UNCHANGED resp
    /\ UNCHANGED <<server, template, files, route, fh, during, nreq, nchg>>

\* Line 14: open(path, "r").  It raises FileNotFoundError when the file is
\* gone by now; otherwise the file object is bound to the file as it is.
load_json_open(r) ==
    /\ pc[r] = "open"
    /\ LET filename == view_filename(route[r]) IN
       IF ~files[filename].exists
       THEN /\ Send(r, ServerError("FileNotFoundError"))
            /\ UNCHANGED fh
       ELSE /\ fh' = [fh EXCEPT ![r] =
                         [name |-> filename, cur |-> TRUE, content |-> files[filename]]]
            /\ pc' = [pc EXCEPT ![r] = "read"]
            /\ UNCHANGED resp
    /\ UNCHANGED <<server, template, files, route, during, nreq, nchg>>

\* The file object kept in a module-level global, which every request in
\* progress assigns: a request reads whichever file object is open.
load_json_read_shared(r) ==
    /\ pc[r] = "read"
    /\ \E q \in Slots :
          /\ fh[q].name # ""
          /\ Send(r, parse_and_respond(read(fh[q].content)))
    /\ fh' = [fh EXCEPT ![r] = Closed]
    /\ UNCHANGED <<server, template, files, route, during, nreq, nchg>>

\* Line 15 and the view's jsonify: the file object is read, closed, its
\* text decoded and the response sent.
load_json_read(r) ==
    /\ pc[r] = "read"
    /\ Send(r, parse_and_respond(read(fh[r].content)))
    /\ fh' = [fh EXCEPT ![r] = Closed]
    /\ UNCHANGED <<server, template, files, route, during, nreq, nchg>>

\* ------------------------------------------------------------ the producer
\* What the requests in progress on file f have seen of it, with state c added.
Observe(f, c) ==
    [r \in Slots |->
        IF Active(r) /\ MetricsFileRef(route[r]) = f THEN during[r] \cup {c} ELSE during[r]]

\* The file objects open on f lose their tie to the name f.
Unlink(f) ==
    [r \in Slots |-> IF fh[r].name = f THEN [fh[r] EXCEPT !.cur = FALSE] ELSE fh[r]]

\* The producer puts a complete file in place of f in one step (a rename
\* onto the name): open file objects keep the file they were opened on.
ProducerReplace(f, c) ==
    /\ nchg < MaxChanges
    /\ c # files[f]
    /\ nchg' = nchg + 1
    /\ files' = [files EXCEPT ![f] = c]
    /\ fh' = Unlink(f)
    /\ during' = Observe(f, c)
    /\ UNCHANGED <<server, template, pc, route, resp, nreq>>

\* The producer rewrites the existing file f in one step: file objects open
\* on it read the new text.
ProducerOverwrite(f, c) ==
    /\ nchg < MaxChanges
    /\ files[f].exists
    /\ c # files[f]
    /\ nchg' = nchg + 1
    /\ files' = [files EXCEPT ![f] = c]
    /\ fh' = [r \in Slots |->
                 IF fh[r].name = f /\ fh[r].cur THEN [fh[r] EXCEPT !.content = c] ELSE fh[r]]
    /\ during' = Observe(f, c)
    /\ UNCHANGED <<server, template, pc, route, resp, nreq>>

\* The producer removes f.
ProducerDelete(f) ==
    /\ nchg < MaxChanges
    /\ files[f].exists
    /\ nchg' = nchg + 1
    /\ files' = [files EXCEPT ![f] = Absent]
    /\ fh' = Unlink(f)
    /\ during' = Observe(f, Absent)
    /\ UNCHANGED <<server, template, pc, route, resp, nreq>>

\* --------------------------------------------------------- specifications
Quiet ==
    /\ server = "starting"
    /\ pc = [r \in Slots |-> "idle"]
    /\ route = [r \in Slots |-> "/"]
    /\ fh = [r \in Slots |-> Closed]
    /\ resp = [r \in Slots |-> NoResponse]
    /\ during = [r \in Slots |-> {}]
    /\ nreq = 0
    /\ nchg = 0

\* The process starts with or without template, on a results directory whose
\* three files are in the same state; the producer makes them differ.
Init ==
    /\ Quiet
    /\ template \in BOOLEAN
    /\ \E c \in SysContents \cup {Absent} : files = [f \in FileNames |-> c]

Handler(r) ==
    \/ index(r)
    \/ load_json_exists(r)
    \/ load_json_open(r)
    \/ load_json_read(r)

Producer ==
    \E f \in FileNames :
        \/ \E c \in SysContents : ProducerReplace(f, c)
        \/ \E c \in SysContents : ProducerOverwrite(f, c)
        \/ ProducerDelete(f)

Next ==
    \/ run
    \/ \E r \in Slots, rt \in Routes : Receive(r, rt)
    \/ \E r \in Slots : Handler(r)
    \/ Producer

Spec == Init /\ [][Next]_vars

\* The conversions alone: one request at a time on a directory that holds
\* one content, any of AllContents, under all three names, and that no
\* producer touches.
InitConv ==
    /\ Quiet
    /\ template = TRUE
    /\ \E c \in AllContents : files = [f \in FileNames |-> c]

NextConv ==
    \/ run
    \/ \E rt \in MetricRoutes : Receive(1, rt)
    \/ load_json_exists(1)
    \/ load_json_open(1)
    \/ load_json_read(1)

SpecConv == InitConv /\ [][NextConv]_vars


\* ------------------------------------------------------------------ claims
Done(r)   == pc[r] = "done"
Metric(r) == route[r] \in MetricRoutes
\* A metric request that has been answered and whose file was in one state
\* from its start to its response.
Steady(r) == Done(r) /\ Metric(r) /\ Cardinality(during[r]) = 1
Seen(r)   == CHOOSE c \in during[r] : TRUE
EmptyObject == <<P("{"), P("}")>>
IsEmptyObject(response) ==
    /\ response.status = 200
    /\ response.ctype = "application/json"
    /\ Significant(response.body) = EmptyObject

\* C1: a metric request whose file is absent from the start of the request
\* to its response is answered 200 with the JSON body {}.
C1_MissingFileIsEmptyObject ==
    \A r \in Slots :
        Done(r) /\ Metric(r) /\ during[r] = {Absent} => IsEmptyObject(resp[r])

C1_Witness ==
    \E r \in Slots :
        /\ Done(r) /\ route[r] = "/api/compare" /\ during[r] = {Absent}
        /\ resp[r].status = 200

\* C2 as claimed: a metric request whose file holds document D, an object or
\* an array, is answered 200 with a body that carries D and nothing else.
C2_Original ==
    \A r \in Slots :
        Steady(r) /\ Seen(r).isdoc =>
            /\ resp[r].status = 200
            /\ Significant(resp[r].body) = Canonical(Seen(r).doc)

\* C2 amended: the same, for every D in which no object repeats a key and no
\* number lies beyond the largest finite double.
C2_DocumentPassesThrough ==
    \A r \in Slots :
        Steady(r) /\ Seen(r).isdoc
          /\ ~RepeatsKey(Seen(r).doc) /\ ~BeyondDouble(Seen(r).doc) =>
            /\ resp[r].status = 200
            /\ resp[r].ctype = "application/json"
            /\ Significant(resp[r].body) = Canonical(Seen(r).doc)

C2_Witness ==
    \E r \in Slots :
        /\ Steady(r) /\ route[r] = "/api/parallel"
        /\ Seen(r) = Written(DObj(<<Kid("b", DReal(5, -1)), Kid("a", DInt(1))>>), TRUE)
        /\ resp[r].status = 200
        /\ Significant(resp[r].body) =
              <<P("{"), StrTok("a"), P(":"), IntTok(1), P(","),
                StrTok("b"), P(":"), RealTok(5, -1), P("}")>>

\* C3 as claimed: a metric request whose file exists and holds a text that
\* is not JSON is answered with a server error, never 200, never {}.
C3_Original ==
    \A r \in Slots :
        Steady(r) /\ Seen(r).exists /\ ~Seen(r).isdoc =>
            /\ resp[r].status >= 500
            /\ Significant(resp[r].body) # EmptyObject

\* The text uses one of the words NaN, Infinity, -Infinity.
UsesNonFinite(text) ==
    \E i \in 1..Len(text) :
        text[i].k = "word" /\ text[i].s \in {"NaN", "Infinity", "-Infinity"}

\* C3 amended: the same, for every text that is not JSON and does not use
\* the words NaN, Infinity or -Infinity; the error is the decoder's.
C3_MalformedIsServerError ==
    \A r \in Slots :
        Steady(r) /\ Seen(r).exists /\ ~Seen(r).isdoc /\ ~UsesNonFinite(Seen(r).text) =>
            /\ resp[r].status = 500
            /\ resp[r].error = "JSONDecodeError"
            /\ Significant(resp[r].body) # EmptyObject

C3_Witness ==
    \E r \in Slots :
        /\ Steady(r) /\ route[r] = "/api/compare"
        /\ Seen(r).text = <<P("{"), WordTok("not"), WS, WordTok("valid"), P("}")>>
        /\ resp[r].status = 500

\* A fresh read of a file in state c, as one uninterrupted request makes it.
FreshRead(c) ==
    IF ~c.exists THEN jsonify(PyDict(<<>>)) ELSE parse_and_respond(c.text)

\* C4: a request that runs while its file is in one state is answered with
\* that state's content ({} when absent), whatever was answered before.
C4_NoStaleContent ==
    \A r \in Slots : Steady(r) => resp[r] = FreshRead(Seen(r))

\* Two answered requests on one endpoint, each on an unchanging file, with
\* different answers: the later one ran after a change and shows it.
C4_Witness ==
    \E r, q \in Slots :
        /\ r # q /\ Steady(r) /\ Steady(q) /\ route[r] = route[q]
        /\ Seen(r) # Seen(q)
        /\ resp[r] # resp[q]
        /\ resp[r].status = 200 /\ resp[q].status = 200

C6_Original ==
    \A r \in Slots : Done(r) => resp[r].error # "TemplateNotFound"

\* C6 amended: a missing template is a per-request error of GET / alone:
\* the server serves, each GET / is answered 500 for the missing template,
\* and no metric request is.
C6_MissingTemplateIsPerRequest ==
    \A r \in Slots :
        Done(r) =>
            /\ route[r] = "/" /\ ~template =>
                  resp[r].status = 500 /\ resp[r].error = "TemplateNotFound"
            /\ Metric(r) => resp[r].error # "TemplateNotFound"

C6_Witness ==
    /\ ~template /\ server = "serving"
    /\ \E r, q \in Slots :
          /\ Done(r) /\ route[r] = "/" /\ resp[r].status = 500
          /\ Done(q) /\ Metric(q) /\ resp[q].status = 200

\* C7 as claimed: no metric request ends in a server error because its file
\* is absent, whenever the producer creates or deletes it.
C7_Original ==
    \A r \in Slots :
        Done(r) /\ Metric(r) => resp[r].error # "FileNotFoundError"

\* C8: a 200 answer of a metric request carries {} or what decoding one whole
\* version yields, a version the file held between the request's start and
\* its response.
C8_WholeVersion ==
    \A r \in Slots :
        Done(r) /\ Metric(r) /\ resp[r].status = 200 =>
            \/ IsEmptyObject(resp[r])
            \/ \E c \in during[r] :
                  /\ c.isdoc
                  /\ resp[r] = parse_and_respond(c.text)

C8_Witness ==
    \E r \in Slots :
        /\ Done(r) /\ Metric(r) /\ resp[r].status = 200
        /\ {c \in during[r] : c.isdoc} = {Written(DocA, FALSE), Written(DocB, TRUE)}
        /\ Significant(resp[r].body) = Canonical(DocA)

\* A step of the gateway: startup, a request's arrival, a step of a handler.
GatewayStep ==
    \/ run
    \/ \E r \in Slots, rt \in Routes : Receive(r, rt)
    \/ \E r \in Slots : Handler(r)

\* C9: no step of the gateway changes the existence or content of a file of
\* the results directory.
C9_ReadOnly == [][GatewayStep => files' = files]_vars

\* Requests were answered with {}, with a document and with a server error,
\* and the directory is as the producer left it.
C9_Witness ==
    \E r, q \in Slots :
        /\ Done(r) /\ Metric(r) /\ during[r] = {Absent}
        /\ ~files[MetricsFileRef(route[r])].exists
        /\ Done(q) /\ Metric(q) /\ resp[q].status = 500

\* C10: the answer of a metric request on an unchanging file is the answer
\* of its route on the directory as it is at any later time, with the
\* route's own file put back as the request saw it, and the answer of every
\* other request of the route that saw the same file: whatever the other
\* two files are or have become, and whatever was requested before.
C10_OwnFileOnly ==
    \A r \in Slots :
        Steady(r) =>
            /\ view(route[r], [files EXCEPT ![MetricsFileRef(route[r])] = Seen(r)]) = resp[r]
            /\ \A q \in Slots :
                  Steady(q) /\ route[q] = route[r] /\ Seen(q) = Seen(r) => resp[q] = resp[r]

\* Two requests of /api/serial saw the same file and were answered alike, in
\* a run in which the producer made another file differ from it.
C10_Witness ==
    \E r, q \in Slots :
        /\ r # q /\ Steady(r) /\ Steady(q)
        /\ route[r] = "/api/serial" /\ route[q] = "/api/serial"
        /\ Seen(r) = Seen(q) /\ resp[r] = resp[q] /\ resp[r].status = 200
        /\ files["serial_metrics.json"] = Seen(r)
        /\ files["parallel_metrics.json"] # Seen(r)

=============================================================================
